---- MODULE Spec2Model ----
(***************************************************************************)
(* Kinetic Monte Carlo lattice of lattice_mc/lattice.py as a state machine. *)
(*                                                                         *)
(* Sites are numbered 1..NumSites and lie on the x axis of a periodic cell  *)
(* of length NumSites.  Simulated time is an exact rational, held as an     *)
(* integer number of ticks (TicksPerUnit ticks per unit of time), so that   *)
(* -ln(u) / R_total is exact for every total rate the model can produce.   *)
(* The random source is an input of populate_sites and jump: the sample of  *)
(* sites, the index of the selected jump and the values of -ln(u).         *)
(***************************************************************************)
EXTENDS Integers, Sequences, FiniteSets, TLC

VARIABLES
    neighbours,                 \* site.neighbours: number -> list of numbers
    r,                          \* site.r (x coordinate)
    is_occupied,                \* site.is_occupied
    site_atom,                  \* site.atom (an atom number, or None)
    occupation,                 \* site.occupation (atom number, 0 when vacated)
    time_occupied,              \* site.time_occupied, in ticks
    atoms,                      \* every Atom created: number -> its fields
    time,                       \* lattice.time, in ticks
    number_of_occupied_sites,   \* the attribute, Undefined until it is set
    last,                       \* the last call and what it returned or raised
    populate_log,               \* history: counts of the populate calls that returned
    jump_count,                 \* history: number of jump() calls that returned
    flag_changed                \* history: sites whose is_occupied changed since
                                \* the clock was last zeroed

vars == << neighbours, r, is_occupied, site_atom, occupation, time_occupied,
           atoms, time, number_of_occupied_sites, last, populate_log, jump_count,
           flag_changed >>

\* ------------------------------------------------------------------ bounds
NumSites == 3
MaxPopulates == 2
MaxJumps == 3

\* the values -ln(u) takes for the uniform draws u the model considers
LogDraws == {1, 2}

\* ---------------------------------------------------------------- constants
None == 0
Undefined == -1

Sites == 1..NumSites
number_of_sites == NumSites
cell_length == NumSites

\* self.sites, in list order
SitesSeq == [i \in 1..NumSites |-> i]

RECURSIVE Gcd(_, _)
Gcd(a, b) == IF b = 0 THEN a ELSE Gcd(b, a % b)

RECURSIVE LcmUpTo(_)
LcmUpTo(n) == IF n <= 1 THEN 1 ELSE (LcmUpTo(n - 1) * n) \div Gcd(LcmUpTo(n - 1), n)

\* one unit of simulated time, in ticks: divisible by every total rate
TicksPerUnit == LcmUpTo(NumSites * NumSites)

RECURSIVE Flatten(_)
Flatten(ss) == IF ss = << >> THEN << >> ELSE Head(ss) \o Flatten(Tail(ss))

Range(f) == { f[i] : i \in DOMAIN f }

RECURSIVE SumOver(_, _)
SumOver(f, S) == IF S = {} THEN 0
                 ELSE LET x == CHOOSE y \in S : TRUE IN f[x] + SumOver(f, S \ {x})

\* ---------------------------------------------------------------- topology
Succ(s) == (s % NumSites) + 1
Pred(s) == ((s + NumSites - 2) % NumSites) + 1

Ring         == [s \in Sites |-> << Pred(s), Succ(s) >>]
DirectedRing == [s \in Sites |-> << Succ(s) >>]
Line         == [s \in Sites |-> (IF s > 1 THEN << s - 1 >> ELSE << >>)
                                  \o (IF s < NumSites THEN << s + 1 >> ELSE << >>)]
Spoke        == [s \in Sites |-> IF s = NumSites THEN << 1 >> ELSE << >>]

Topologies == { Ring, DirectedRing, Line, Spoke }

\* ------------------------------------------------------------- construction
wrap(x, L) ==
    LET a == IF x < 0 THEN x + L ELSE x
    IN  IF a > L THEN a - L ELSE a

enforce_periodic_boundary_conditions(coords) ==
    [s \in Sites |-> wrap(coords[s], cell_length)]

NoCall == [op |-> "init", status |-> "ok", count |-> 0, jump |-> << 0, 0 >>,
           delta_t |-> 0, returned |-> 0, stats |-> << >>]

Init ==
    /\ neighbours \in Topologies
    /\ r = enforce_periodic_boundary_conditions([s \in Sites |-> s - 1])
    /\ is_occupied = [s \in Sites |-> FALSE]
    /\ site_atom = [s \in Sites |-> None]
    /\ occupation = [s \in Sites |-> 0]
    /\ time_occupied = [s \in Sites |-> 0]
    /\ atoms = << >>
    /\ time = 0
    /\ number_of_occupied_sites = Undefined
    /\ last = NoCall
    /\ populate_log = << >>
    /\ jump_count = 0
    /\ flag_changed = {}

\* ------------------------------------------------------------------- reset
\* the clock is left as it is
reset_time_kept == time

reset_time == 0

\* the per-site counters are left as they are
reset_time_occupied_kept == time_occupied

reset_time_occupied == [s \in Sites |-> 0]

reset ==
    /\ time' = reset_time
    /\ time_occupied' = reset_time_occupied
    /\ last' = [NoCall EXCEPT !.op = "reset"]
    /\ flag_changed' = {}
    /\ UNCHANGED << neighbours, r, is_occupied, site_atom, occupation, atoms,
                    number_of_occupied_sites, populate_log, jump_count >>

\* ------------------------------------------------------- site sequences
site_with_id(n) == n

vacant_sites == SelectSeq(SitesSeq, LAMBDA s : ~is_occupied[s])

occupied_sites == SelectSeq(SitesSeq, LAMBDA s : is_occupied[s])

\* --------------------------------------------------------- potential_jumps
Jump(initial_site, final_site) ==
    [initial_site |-> initial_site, final_site |-> final_site]

\* lines 61-64: for each occupied site, its unoccupied neighbours
jumps_from_occupied ==
    Flatten([i \in 1..Len(occupied_sites) |->
        LET occupied_site == occupied_sites[i]
            unoccupied_neighbours ==
                SelectSeq([k \in 1..Len(neighbours[occupied_site]) |->
                               site_with_id(neighbours[occupied_site][k])],
                          LAMBDA site : ~is_occupied[site])
        IN  [k \in 1..Len(unoccupied_neighbours) |->
                Jump(occupied_site, unoccupied_neighbours[k])]])

\* lines 66-69: for each vacant site, its occupied neighbours
jumps_to_vacant ==
    Flatten([i \in 1..Len(vacant_sites) |->
        LET vacant_site == vacant_sites[i]
            occupied_neighbours ==
                SelectSeq([k \in 1..Len(neighbours[vacant_site]) |->
                               site_with_id(neighbours[vacant_site][k])],
                          LAMBDA site : is_occupied[site])
        IN  [k \in 1..Len(occupied_neighbours) |->
                Jump(occupied_neighbours[k], vacant_site)]])

\* line 60: number_of_occupied_sites <= number_of_sites / 2
scan_occupied == 2 * number_of_occupied_sites <= number_of_sites

potential_jumps ==
    IF scan_occupied THEN jumps_from_occupied ELSE jumps_to_vacant

\* ------------------------------------------------------------ Transitions
\* equal weight for every candidate jump when no energy model is configured
rate(jmp) == 1

total_rate(jumps) == SumOver([i \in DOMAIN jumps |-> rate(jumps[i])], DOMAIN jumps)

no_transitions_available(jumps) == Len(jumps) = 0 \/ total_rate(jumps) = 0

\* -ln(u) / R_total, in ticks, for the draw u = exp(-k)
time_to_jump(jumps, k) == (k * TicksPerUnit) \div total_rate(jumps)

\* ------------------------------------------------------------------ update
\* Jump.dr: minimum-image displacement along x
dr_of(jmp) ==
    LET d == r[jmp.final_site] - r[jmp.initial_site]
    IN  IF 2 * d > cell_length THEN d - cell_length
        ELSE IF 2 * d < -cell_length THEN d + cell_length
        ELSE d

update_occupation(jmp) ==
    [occupation EXCEPT ![jmp.final_site] = atoms[site_atom[jmp.initial_site]].number,
                       ![jmp.initial_site] = 0]

update_site_atom(jmp) ==
    [site_atom EXCEPT ![jmp.final_site] = site_atom[jmp.initial_site],
                      ![jmp.initial_site] = None]

\* the source's flag is not cleared
update_is_occupied_source_kept(jmp) ==
    [is_occupied EXCEPT ![jmp.final_site] = TRUE]

update_is_occupied(jmp) ==
    [is_occupied EXCEPT ![jmp.final_site] = TRUE,
                        ![jmp.initial_site] = FALSE]

\* the hop is not counted
update_atoms_hop_not_counted(jmp) ==
    LET a == site_atom[jmp.initial_site]
        dr == dr_of(jmp)
    IN  [atoms EXCEPT ![a].site = jmp.final_site,
                      ![a].dr = @ + dr,
                      ![a].summed_dr2 = @ + dr * dr]

\* the particle's site reference is not moved
update_atoms_site_kept(jmp) ==
    LET a == site_atom[jmp.initial_site]
        dr == dr_of(jmp)
    IN  [atoms EXCEPT ![a].number_of_hops = @ + 1,
                      ![a].dr = @ + dr,
                      ![a].summed_dr2 = @ + dr * dr]

update_atoms(jmp) ==
    LET a == site_atom[jmp.initial_site]
        dr == dr_of(jmp)
    IN  [atoms EXCEPT ![a].site = jmp.final_site,
                      ![a].number_of_hops = @ + 1,
                      ![a].dr = @ + dr,
                      ![a].summed_dr2 = @ + dr * dr]

update(jmp) ==
    /\ occupation' = update_occupation(jmp)
    /\ site_atom' = update_site_atom(jmp)
    /\ is_occupied' = update_is_occupied(jmp)
    /\ atoms' = update_atoms(jmp)

\* ---------------------------------------------------------- populate_sites
\* Atom( initial_site = site ), the n-th Atom ever created
Atom(n, site) ==
    [number |-> n, site |-> site, number_of_hops |-> 0, dr |-> 0, summed_dr2 |-> 0]

\* the assertion with < for <=
populate_assertion_strict(number_of_atoms) == number_of_atoms < number_of_sites

\* line 88: assert( number_of_atoms <= self.number_of_sites )
populate_assertion(number_of_atoms) == number_of_atoms <= number_of_sites

\* random.sample( self.sites, number_of_atoms ): every ordered sample without replacement
random_sample(number_of_atoms) ==
    { q \in [1..number_of_atoms -> Sites] :
        \A i, j \in 1..number_of_atoms : i # j => q[i] # q[j] }

populate_count(number_of_atoms) == number_of_atoms

populate_sites(calls_allowed) ==
    \E number_of_atoms \in 0..(NumSites + 1) :
        IF ~populate_assertion(number_of_atoms)
        THEN /\ last' = [NoCall EXCEPT !.op = "populate_sites",
                                       !.status = "InvalidConfiguration",
                                       !.count = number_of_atoms]
             /\ UNCHANGED << neighbours, r, is_occupied, site_atom, occupation,
                             time_occupied, atoms, time, number_of_occupied_sites,
                             populate_log, jump_count, flag_changed >>
        ELSE /\ Len(populate_log) < calls_allowed
             /\ \E sample \in random_sample(number_of_atoms) :
                  LET first == Len(atoms)
                      chosen(s) == \E i \in 1..number_of_atoms : sample[i] = s
                      index(s) == CHOOSE i \in 1..number_of_atoms : sample[i] = s
                  IN  /\ atoms' = atoms \o [i \in 1..number_of_atoms |->
                                               Atom(first + i, sample[i])]
                      /\ is_occupied' = [s \in Sites |->
                                            IF chosen(s) THEN TRUE ELSE is_occupied[s]]
                      /\ site_atom' = [s \in Sites |->
                                          IF chosen(s) THEN first + index(s)
                                          ELSE site_atom[s]]
                      /\ occupation' = [s \in Sites |->
                                           IF chosen(s) THEN first + index(s)
                                           ELSE occupation[s]]
             /\ number_of_occupied_sites' = populate_count(number_of_atoms)
             /\ last' = [NoCall EXCEPT !.op = "populate_sites",
                                       !.count = number_of_atoms]
             /\ populate_log' = Append(populate_log, number_of_atoms)
             /\ flag_changed' = flag_changed \cup
                    {s \in Sites : is_occupied'[s] # is_occupied[s]}
             /\ UNCHANGED << neighbours, r, time_occupied, time, jump_count >>

\* -------------------------------------------------------------------- jump
\* the clock is assigned the waiting time instead of advanced by it
advance_time_assigned(delta_t) == delta_t

advance_time(delta_t) == time + delta_t

\* every site is credited, not only the occupied ones
update_site_occupation_times_all_sites(delta_t) ==
    [s \in Sites |-> time_occupied[s] + delta_t]

\* no site is credited
update_site_occupation_times_skipped(delta_t) == time_occupied

update_site_occupation_times(delta_t) ==
    [s \in Sites |-> IF is_occupied[s] THEN time_occupied[s] + delta_t
                     ELSE time_occupied[s]]

\* the particle is moved before the occupied sites are credited
commit_update_first(random_jump, delta_t) ==
    /\ time' = advance_time(delta_t)
    /\ update(random_jump)
    /\ time_occupied' = [s \in Sites |->
                            IF update_is_occupied(random_jump)[s]
                            THEN time_occupied[s] + delta_t
                            ELSE time_occupied[s]]

\* lines 97-99, in order: the clock, the occupied-time counters of the sites
\* occupied before the jump, then the jump itself
commit(random_jump, delta_t) ==
    /\ time' = advance_time(delta_t)
    /\ time_occupied' = update_site_occupation_times(delta_t)
    /\ update(random_jump)

jump_fails(status) ==
    /\ last' = [NoCall EXCEPT !.op = "jump", !.status = status]
    /\ UNCHANGED << neighbours, r, is_occupied, site_atom, occupation,
                    time_occupied, atoms, time, number_of_occupied_sites,
                    populate_log, jump_count, flag_changed >>

jump ==
    IF number_of_occupied_sites = Undefined
    THEN jump_fails("AttributeError")
    ELSE LET all_transitions == potential_jumps IN
         IF no_transitions_available(all_transitions)
         THEN jump_fails("NoTransitionsAvailable")
         ELSE /\ jump_count < MaxJumps
              /\ \E j \in 1..Len(all_transitions), k1 \in LogDraws, k2 \in LogDraws :
                   LET random_jump == all_transitions[j]
                       delta_t == time_to_jump(all_transitions, k1)
                   IN  /\ commit(random_jump, delta_t)
                       /\ last' = [NoCall EXCEPT
                                     !.op = "jump",
                                     !.jump = << random_jump.initial_site,
                                                 random_jump.final_site >>,
                                     !.delta_t = delta_t,
                                     !.returned = time_to_jump(all_transitions, k2)]
              /\ jump_count' = jump_count + 1
              /\ flag_changed' = flag_changed \cup
                     {s \in Sites : is_occupied'[s] # is_occupied[s]}
              /\ UNCHANGED << neighbours, r, number_of_occupied_sites, populate_log >>

\* ---------------------------------------------- site_occupation_statistics
\* site.label: two kinds of site, alternating along the axis
label(s) == IF s % 2 = 1 THEN "A" ELSE "B"

site_labels == { label(s) : s \in Sites }

\* every site's time_occupied is added to every label
add_time_occupied_every_label(stats, sites) ==
    [l \in DOMAIN stats |-> stats[l] + SumOver(time_occupied, Range(sites))]

\* lines 108-109: occupation_stats[ site.label ] += site.time_occupied
RECURSIVE add_time_occupied(_, _)
add_time_occupied(stats, sites) ==
    IF sites = << >> THEN stats
    ELSE add_time_occupied(
             [stats EXCEPT ![label(Head(sites))] = @ + time_occupied[Head(sites)]],
             Tail(sites))

\* x / y for y # 0, as the exact fraction
quotient(x, y) == [num |-> x, den |-> y]

site_occupation_statistics ==
    LET occupation_stats == add_time_occupied([l \in site_labels |-> 0], SitesSeq)
    IN  /\ IF time = 0
           THEN last' = [NoCall EXCEPT !.op = "site_occupation_statistics",
                                       !.status = "ZeroDivisionError"]
           ELSE last' = [NoCall EXCEPT
                           !.op = "site_occupation_statistics",
                           !.stats = [l \in site_labels |->
                                         quotient(occupation_stats[l], time)]]
        /\ UNCHANGED << neighbours, r, is_occupied, site_atom, occupation,
                        time_occupied, atoms, time, number_of_occupied_sites,
                        populate_log, jump_count, flag_changed >>

\* ----------------------------------------------------------- specification
\* any sequence of populate_sites, jump and reset calls on a constructed lattice
Next == populate_sites(MaxPopulates) \/ jump \/ reset \/ site_occupation_statistics

Spec == Init /\ [][Next]_vars

\* a simulation run: the constructed lattice is populated once, then stepped
\* and reset in any order
NextRun == populate_sites(1) \/ jump \/ reset \/ site_occupation_statistics

SpecRun == Init /\ [][NextRun]_vars

\* construction from sites given with any coordinate: the x coordinates the
\* constructor is handed, then Lattice( sites, cell_lengths )
Coordinates == (0 - (2 * cell_length + 1))..(2 * cell_length + 1)

SitesGiven == [NoCall EXCEPT !.op = "sites"]

InitGiven ==
    /\ neighbours \in Topologies
    /\ r \in [Sites -> Coordinates]
    /\ is_occupied = [s \in Sites |-> FALSE]
    /\ site_atom = [s \in Sites |-> None]
    /\ occupation = [s \in Sites |-> 0]
    /\ time_occupied = [s \in Sites |-> 0]
    /\ atoms = << >>
    /\ time = 0
    /\ number_of_occupied_sites = Undefined
    /\ last = SitesGiven
    /\ populate_log = << >>
    /\ jump_count = 0
    /\ flag_changed = {}

construct ==
    /\ last = SitesGiven
    /\ r' = enforce_periodic_boundary_conditions(r)
    /\ time' = reset_time
    /\ time_occupied' = reset_time_occupied
    /\ last' = NoCall
    /\ flag_changed' = {}
    /\ UNCHANGED << neighbours, is_occupied, site_atom, occupation, atoms,
                    number_of_occupied_sites, populate_log, jump_count >>

NextConstruct == construct

SpecConstruct == InitGiven /\ [][NextConstruct]_vars

\* ------------------------------------------------------------------ claims
OccupiedSet == { s \in Sites : is_occupied[s] }

\* the (source, target) pairs with source occupied, target vacant and target in
\* the source's neighbour list
CandidateJumps ==
    { << s, n >> : s \in OccupiedSet, n \in Sites } \cap
    { p \in Sites \X Sites : ~is_occupied[p[2]] /\ p[2] \in Range(neighbours[p[1]]) }

JumpPairs(jumps) == { << jumps[i].initial_site, jumps[i].final_site >> : i \in DOMAIN jumps }

\* the lattice state a call can change (everything but the record of the call)
LatticeUnchanged ==
    UNCHANGED << is_occupied, site_atom, occupation, time_occupied, atoms, time,
                 number_of_occupied_sites >>

JumpReturned == last.op = "jump" /\ last.status = "ok"

\* C1: after populate(n), whatever jumps and resets follow, number_of_occupied_sites
\* is n and exactly n sites have the occupation flag set.
OccupationConservation ==
    Len(populate_log) = 1 =>
        /\ number_of_occupied_sites = populate_log[1]
        /\ Cardinality(OccupiedSet) = populate_log[1]

OccupationConservationWitness ==
    /\ Len(populate_log) = 1
    /\ populate_log[1] = 2
    /\ jump_count = MaxJumps
    /\ Cardinality(OccupiedSet) = 2

\* C2: after populate(n) and any jumps, the occupied sites and the particles pair
\* off: as many occupied sites as particles, each occupied site holds the one
\* particle whose site reference is that site, each particle sits on an occupied
\* site that holds it, and a vacant site holds no particle.
BijectiveOccupancy ==
    Len(populate_log) <= 1 =>
        /\ Cardinality(OccupiedSet) = Len(atoms)
        /\ \A s \in OccupiedSet :
              /\ site_atom[s] \in DOMAIN atoms
              /\ atoms[site_atom[s]].site = s
              /\ Cardinality({ a \in DOMAIN atoms : atoms[a].site = s }) = 1
        /\ \A a \in DOMAIN atoms :
              /\ is_occupied[atoms[a].site]
              /\ site_atom[atoms[a].site] = a
        /\ \A s \in Sites \ OccupiedSet :
              /\ site_atom[s] = None
              /\ \A a \in DOMAIN atoms : atoms[a].site # s

BijectiveOccupancyWitness ==
    /\ Len(populate_log) = 1
    /\ Len(atoms) = 2
    /\ jump_count >= 2
    /\ \E a \in DOMAIN atoms : atoms[a].number_of_hops = 2
    /\ \E s \in Sites : ~is_occupied[s]

\* C3: the value a successful jump() returns is the amount by which that call
\* advanced the clock, and the amount it added to each occupied site's
\* time_occupied.
ReturnsWaitingTimeUsed ==
    [][ (last'.op = "jump" /\ last'.status = "ok") =>
            /\ last'.returned = time' - time
            /\ \A s \in OccupiedSet : last'.returned = time_occupied'[s] - time_occupied[s]
      ]_vars

\* C4: time is 0 after construction, no jump() decreases it, a jump() that
\* returns increases it, and only reset() lowers it (to 0).
TimeMonotonicity ==
    /\ time = 0
    /\ [][ /\ (last'.op = "jump" => time' >= time)
           /\ ((last'.op = "jump" /\ last'.status = "ok") => time' > time)
           /\ (time' < time => (last'.op = "reset" /\ time' = 0))
         ]_vars

TimeMonotonicityWitness ==
    /\ JumpReturned
    /\ jump_count >= 2
    /\ time > 0
    /\ time = last.delta_t

\* C5: when no candidate jump exists, jump() reports NoTransitionsAvailable and
\* changes neither time, nor any site, nor any particle.
DeadlockDetection ==
    [][ (last'.op = "jump" /\ CandidateJumps = {}) =>
            /\ last'.status = "NoTransitionsAvailable"
            /\ LatticeUnchanged
      ]_vars

\* C6: after populate(n), with any jumps and resets, the time_occupied of all
\* sites add up to n times the lattice time.
StatisticsNormalization ==
    Len(populate_log) = 1 =>
        SumOver(time_occupied, Sites) = populate_log[1] * time

StatisticsNormalizationWitness ==
    /\ Len(populate_log) = 1
    /\ populate_log[1] = 2
    /\ jump_count >= 2
    /\ time > 0
    /\ \E s \in Sites : 0 < time_occupied[s] /\ time_occupied[s] < time

\* C7: populate(count) with count above the number of sites fails with
\* InvalidConfiguration, creating no particle and changing no site; otherwise it
\* creates count particles on pairwise distinct sites, marks exactly those sites
\* occupied and sets number_of_occupied_sites to count.
PopulateContract ==
    [][ last'.op = "populate_sites" =>
          IF last'.count > number_of_sites
          THEN /\ last'.status = "InvalidConfiguration"
               /\ LatticeUnchanged
          ELSE LET created == { a \in DOMAIN atoms' : a \notin DOMAIN atoms }
                   marked == { atoms'[a].site : a \in created }
               IN  /\ last'.status = "ok"
                   /\ Cardinality(created) = last'.count
                   /\ Cardinality(marked) = last'.count
                   /\ \A a \in DOMAIN atoms : atoms'[a] = atoms[a]
                   /\ \A a \in created : /\ is_occupied'[atoms'[a].site]
                                         /\ site_atom'[atoms'[a].site] = a
                                         /\ atoms'[a].number_of_hops = 0
                   /\ \A s \in Sites \ marked : /\ is_occupied'[s] = is_occupied[s]
                                                /\ site_atom'[s] = site_atom[s]
                   /\ (OccupiedSet = {} => { s \in Sites : is_occupied'[s] } = marked)
                   /\ number_of_occupied_sites' = last'.count
                   /\ time' = time /\ time_occupied' = time_occupied
      ]_vars

PopulateContractWitness ==
    /\ last.op = "populate_sites"
    /\ last.status = "InvalidConfiguration"
    /\ last.count = number_of_sites + 1
    /\ populate_log = << 2 >>
    /\ Cardinality(OccupiedSet) = 2

\* C8: the enumeration is exactly the set of pairs (occupied source, vacant
\* target in the source's neighbour list), and its two branches agree.
EnumerationExact ==
    number_of_occupied_sites # Undefined =>
        /\ JumpPairs(potential_jumps) = CandidateJumps
        /\ JumpPairs(jumps_from_occupied) = JumpPairs(jumps_to_vacant)

\* C9: a jump() call commits all of its effects (time advanced by the waiting
\* time, the same waiting time added to every site occupied before the jump,
\* one particle moved from an occupied to a vacant site) or none of them.
StepAtomicity ==
    [][ last'.op = "jump" =>
          \/ /\ last'.status # "ok"
             /\ LatticeUnchanged
          \/ /\ last'.status = "ok"
             /\ time' > time
             /\ \A s \in Sites :
                   time_occupied'[s] =
                       time_occupied[s] + (IF is_occupied[s] THEN time' - time ELSE 0)
             /\ \E s \in OccupiedSet, n \in Sites \ OccupiedSet :
                   LET a == site_atom[s] IN
                   /\ is_occupied' = [is_occupied EXCEPT ![s] = FALSE, ![n] = TRUE]
                   /\ site_atom' = [site_atom EXCEPT ![s] = None, ![n] = a]
                   /\ atoms'[a].site = n
                   /\ atoms'[a].number_of_hops = atoms[a].number_of_hops + 1
                   /\ \A b \in DOMAIN atoms \ {a} : atoms'[b] = atoms[b]
      ]_vars

StepAtomicityWitness ==
    /\ JumpReturned
    /\ jump_count = MaxJumps
    /\ \E s \in Sites : time_occupied[s] = 0
    /\ \E s \in Sites : time_occupied[s] = time

\* C10: in every reachable state number_of_occupied_sites is defined and is the
\* number of sites whose occupation flag is set.
OccupiedCountConsistent ==
    /\ number_of_occupied_sites # Undefined
    /\ number_of_occupied_sites = Cardinality(OccupiedSet)

\* C11: reset() sets time and every site's time_occupied to 0 and changes no
\* site's occupation flag or particle, no particle's site, hop count or
\* displacement, and not number_of_occupied_sites.
ResetFrame ==
    [][ last'.op = "reset" =>
            /\ time' = 0
            /\ \A s \in Sites : time_occupied'[s] = 0
            /\ UNCHANGED << is_occupied, site_atom, occupation, atoms,
                            number_of_occupied_sites >>
      ]_vars

ResetFrameWitness ==
    /\ last.op = "reset"
    /\ jump_count >= 2
    /\ time = 0
    /\ \E a \in DOMAIN atoms : atoms[a].number_of_hops >= 1 /\ atoms[a].dr # 0
    /\ number_of_occupied_sites = 2

\* C12: whatever coordinate a site is given with, after construction it lies
\* in [0, cell_length) and is congruent to the given one modulo cell_length.
BoundaryWrap ==
    [][ (last = SitesGiven /\ last' = NoCall) =>
            \A s \in Sites :
                /\ 0 <= r'[s]
                /\ r'[s] < cell_length
                /\ (r'[s] - r[s]) % cell_length = 0
      ]_vars

\* C13: site_occupation_statistics() at time 0 ends in an error, returns no
\* quotient and changes nothing; at time > 0 it returns, for every label, the
\* sum of time_occupied over the sites with that label divided by time.
StatisticsContract ==
    [][ last'.op = "site_occupation_statistics" =>
            /\ LatticeUnchanged
            /\ IF time = 0
               THEN /\ last'.status # "ok"
                    /\ last'.stats = << >>
               ELSE /\ last'.status = "ok"
                    /\ DOMAIN last'.stats = site_labels
                    /\ \A l \in site_labels :
                          /\ last'.stats[l].den = time
                          /\ last'.stats[l].num =
                                 SumOver(time_occupied, { s \in Sites : label(s) = l })
      ]_vars

StatisticsContractWitness ==
    /\ last.op = "site_occupation_statistics"
    /\ last.status = "ZeroDivisionError"
    /\ jump_count >= 1
    /\ time = 0

\* C15: in a jump() that returns, with the clock advanced by dt, the source
\* site gains dt, the target site gains nothing, every other site occupied
\* before the jump gains dt and every other site vacant before it gains nothing.
OccupiedTimeBeforeJump ==
    [][ (last'.op = "jump" /\ last'.status = "ok") =>
            LET dt == time' - time
                source == last'.jump[1]
                target == last'.jump[2]
            IN  /\ is_occupied[source] /\ ~is_occupied'[source]
                /\ ~is_occupied[target] /\ is_occupied'[target]
                /\ time_occupied'[source] = time_occupied[source] + dt
                /\ time_occupied'[target] = time_occupied[target]
                /\ \A s \in Sites \ { source, target } :
                      time_occupied'[s] =
                          time_occupied[s] + (IF is_occupied[s] THEN dt ELSE 0)
      ]_vars

OccupiedTimeBeforeJumpWitness ==
    /\ JumpReturned
    /\ Cardinality(OccupiedSet) = 2
    /\ time_occupied[last.jump[1]] = time
    /\ time_occupied[last.jump[2]] = 0
    /\ time = last.delta_t

\* C16: a jump() that returns changes the occupation of exactly two sites: an
\* occupied source becomes vacant and a vacant target in the source's
\* neighbour list becomes occupied by the same particle, whose hop count grows
\* by 1 and whose site becomes the target; no other site or particle changes.
StepFrame ==
    [][ (last'.op = "jump" /\ last'.status = "ok") =>
            LET source == last'.jump[1]
                target == last'.jump[2]
                a == site_atom[source]
            IN  /\ is_occupied[source]
                /\ ~is_occupied[target]
                /\ target \in Range(neighbours[source])
                /\ is_occupied' = [is_occupied EXCEPT ![source] = FALSE, ![target] = TRUE]
                /\ site_atom' = [site_atom EXCEPT ![source] = None, ![target] = a]
                /\ atoms'[a].site = target
                /\ atoms'[a].number_of_hops = atoms[a].number_of_hops + 1
                /\ \A b \in DOMAIN atoms \ {a} : atoms'[b] = atoms[b]
      ]_vars

\* C17: the enumeration scans the occupied sites when there are at most as
\* many occupied sites as vacant ones, and the vacant sites otherwise.
ScanSmallerSet ==
    number_of_occupied_sites # Undefined =>
        (scan_occupied <=>
            Cardinality(OccupiedSet) <= Cardinality(Sites \ OccupiedSet))

SumOfHops == SumOver([a \in DOMAIN atoms |-> atoms[a].number_of_hops], DOMAIN atoms)

\* C18: every site's time_occupied lies between 0 and the lattice time; it
\* equals the lattice time when the site has been occupied ever since the
\* last reset, and 0 when the site has been vacant ever since the last reset.
OccupiedTimeBounds ==
    \A s \in Sites :
        /\ 0 <= time_occupied[s]
        /\ time_occupied[s] <= time
        /\ (is_occupied[s] /\ s \notin flag_changed) => time_occupied[s] = time
        /\ (~is_occupied[s] /\ s \notin flag_changed) => time_occupied[s] = 0

OccupiedTimeBoundsWitness ==
    /\ time > 0
    /\ \E s \in Sites : is_occupied[s] /\ s \notin flag_changed /\ time_occupied[s] = time
    /\ \E s \in flag_changed : 0 < time_occupied[s] /\ time_occupied[s] < time

\* C19: after populate(n) and any jumps, the hop counts of all particles add
\* up to the number of jump() calls that returned; a jump() that raises and a
\* reset() change no hop count.
HopsCountSteps ==
    /\ SumOfHops = jump_count
    /\ [][ /\ SumOfHops' = jump_count'
           /\ ((last'.op = "jump" /\ last'.status = "ok") => jump_count' = jump_count + 1)
           /\ (~(last'.op = "jump" /\ last'.status = "ok") => jump_count' = jump_count)
           /\ ((last'.op = "reset" \/ (last'.op = "jump" /\ last'.status # "ok")) =>
                  /\ DOMAIN atoms' = DOMAIN atoms
                  /\ \A a \in DOMAIN atoms :
                        atoms'[a].number_of_hops = atoms[a].number_of_hops)
         ]_vars

HopsCountStepsWitness ==
    /\ last.op = "reset"
    /\ jump_count = MaxJumps
    /\ SumOfHops = MaxJumps
    /\ Cardinality({a \in DOMAIN atoms : atoms[a].number_of_hops >= 1}) >= 2

\* Supporting facts for C5 and C8, which hold of the code.
\* Once number_of_occupied_sites is set, a jump() whose enumeration is empty
\* reports NoTransitionsAvailable and changes nothing.
DeadlockDetectionOncePopulated ==
    [][ (last'.op = "jump" /\ number_of_occupied_sites # Undefined
                           /\ potential_jumps = << >>) =>
            /\ last'.status = "NoTransitionsAvailable"
            /\ LatticeUnchanged
      ]_vars

\* For a symmetric neighbour relation both branches of the enumeration give
\* the candidate set.
EnumerationExactWhenSymmetric ==
    (\A s, n \in Sites : n \in Range(neighbours[s]) <=> s \in Range(neighbours[n])) =>
        /\ JumpPairs(jumps_from_occupied) = CandidateJumps
        /\ JumpPairs(jumps_to_vacant) = CandidateJumps

\* Supporting fact for C12: a coordinate in [-cell_length, cell_length) is
\* wrapped into [0, cell_length), congruent to the one given.
BoundaryWrapWithinOneCell ==
    [][ (last = SitesGiven /\ last' = NoCall) =>
            \A s \in Sites :
                (0 - cell_length <= r[s] /\ r[s] < cell_length) =>
                    /\ 0 <= r'[s]
                    /\ r'[s] < cell_length
                    /\ (r'[s] - r[s]) % cell_length = 0
      ]_vars

\* Supporting fact for C16: the claim with the target in the source's neighbour
\* list or the source in the target's.
StepFrameEitherDirection ==
    [][ (last'.op = "jump" /\ last'.status = "ok") =>
            LET source == last'.jump[1]
                target == last'.jump[2]
                a == site_atom[source]
            IN  /\ is_occupied[source]
                /\ ~is_occupied[target]
                /\ \/ target \in Range(neighbours[source])
                   \/ source \in Range(neighbours[target])
                /\ is_occupied' = [is_occupied EXCEPT ![source] = FALSE, ![target] = TRUE]
                /\ site_atom' = [site_atom EXCEPT ![source] = None, ![target] = a]
                /\ atoms'[a].site = target
                /\ atoms'[a].number_of_hops = atoms[a].number_of_hops + 1
                /\ \A b \in DOMAIN atoms \ {a} : atoms'[b] = atoms[b]
      ]_vars

====
